---- MODULE Spec2Model ----
(***************************************************************************)
(* acc-companion: the Beam energy model (beam.py), the recursion Guard     *)
(* (utils.py) and the change handlers of the application (app.py).         *)
(*                                                                         *)
(* Numbers.  Python floats are finite-precision: every arithmetic          *)
(* operation returns the representable value nearest to the exact result.  *)
(* The model keeps that structure on a decimal grid: the integer n stands  *)
(* for the number n / Scale, and every product, quotient and square root   *)
(* is rounded to the nearest grid point.  Sums and differences of grid     *)
(* points are exact.  Scale bounds the precision of the model.             *)
(***************************************************************************)
EXTENDS Integers, Sequences, FiniteSets, TLC

VARIABLES beam, constructed, args, last, snapshot, fresh,
          blocks, stack, pending, ret, runs,
          number_of_nucleons, inputs, edit, events

vars == <<beam, constructed, args, last, snapshot, fresh,
          blocks, stack, pending, ret, runs,
          number_of_nucleons, inputs, edit, events>>

(***************************************************************************)
(* Bounds of the model.                                                    *)
(***************************************************************************)
Scale == 100
MaxSupplied == 2
MaxDepth == 2
MaxEvents == 4

(***************************************************************************)
(* Finite-precision arithmetic.  An operation yields Ok(v) or raises.      *)
(***************************************************************************)
Ok(v) == [exc |-> "none", v |-> v]
Raise(e) == [exc |-> e, v |-> 0]

\* a / b for b > 0, as the nearest integer
RDiv(a, b) == (a + b \div 2) \div b

RECURSIVE isqrt(_, _, _)
isqrt(x, lo, hi) ==
  IF lo >= hi THEN lo
  ELSE LET mid == (lo + hi + 1) \div 2
       IN  IF mid * mid <= x THEN isqrt(x, mid, hi) ELSE isqrt(x, lo, mid - 1)

abs(x) == IF x < 0 THEN -x ELSE x

\* a * b
fmul(a, b) == RDiv(a * b, Scale)

\* a / b: ZeroDivisionError ("float division by zero") when b = 0
fdiv(a, b) ==
  IF b = 0 THEN Raise("ZeroDivisionError")
  ELSE IF b > 0 THEN Ok(RDiv(a * Scale, b))
  ELSE Ok(RDiv((-a) * Scale, -b))

\* math.sqrt(a): ValueError ("math domain error") when a < 0
math_sqrt(a) ==
  IF a < 0 THEN Raise("ValueError")
  ELSE LET x == a * Scale
           r == isqrt(x, 0, IF x < 46340 THEN x ELSE 46340)
       IN  Ok(IF x - r * r > r THEN r + 1 ELSE r)

\* SPEED_OF_LIGHT [m/s]
SPEED_OF_LIGHT == 299792458

\* SPEED_OF_LIGHT * 1e-9 on the grid
LightGeV == ((SPEED_OF_LIGHT \div 100000) * Scale + 5000) \div 10000

(***************************************************************************)
(* Guard (utils.py).  blocks[g] is the attribute `blocks` of the Guard     *)
(* instance g: "handler" is the instance block_recursion creates for the   *)
(* handler it wraps, reachable only through the wrapper; "scoped" is an    *)
(* instance used directly, through `with`, block() and unblock().          *)
(***************************************************************************)
Guards == {"handler", "scoped"}

\* block() that engages without looking at the latch
block_idempotent(bl, g) == [exc |-> "none", blocks |-> [bl EXCEPT ![g] = TRUE]]

\* Guard.block: [exc, blocks]
block(bl, g) ==
  IF bl[g] THEN [exc |-> "AlreadyBlocksError", blocks |-> bl]
  ELSE [exc |-> "none", blocks |-> [bl EXCEPT ![g] = TRUE]]

\* Guard.unblock
unblock(bl, g) == [bl EXCEPT ![g] = FALSE]

\* Guard.__enter__
Guard_enter(bl, g) == block(bl, g)

\* a release that is skipped when the block is left by an exception
Guard_exit_on_return_only(bl, g, exc_type) ==
  IF exc_type # "none" THEN bl ELSE unblock(bl, g)

\* Guard.__exit__(exc_type, exc_value, traceback): returns None, so an
\* exception leaving the block propagates
Guard_exit(bl, g, exc_type) == unblock(bl, g)

\* the wrapper entering the block without the test on guard.blocks
wrapper_enter_unconditional(bl) ==
  LET r == Guard_enter(bl, "handler")
  IN  [entered |-> r.exc = "none", exc |-> r.exc, blocks |-> r.blocks]

\* wrapper of Guard.block_recursion up to the call of func:
\* `if not guard.blocks: with guard:`.  entered tells whether func is called;
\* when it is not, the wrapper falls off its end and returns None.
wrapper_enter(bl) ==
  IF ~bl["handler"]
  THEN LET r == Guard_enter(bl, "handler")
       IN  [entered |-> r.exc = "none", exc |-> r.exc, blocks |-> r.blocks]
  ELSE [entered |-> FALSE, exc |-> "none", blocks |-> bl]

\* the guard whose block a frame of the call stack is in
GuardOf(frame) == IF frame.kind = "body" THEN "handler" ELSE "scoped"

(***************************************************************************)
(* Beam (beam.py).  The object holds mass, charge and energy; momentum,    *)
(* gamma, beta and rigidity are properties computed from them.             *)
(***************************************************************************)
energy_definition_precedence == <<"energy", "momentum", "gamma", "beta", "rigidity">>

Quantities == {"energy", "momentum", "gamma", "beta", "rigidity"}

Attributes == <<"mass", "charge", "energy", "momentum", "gamma", "beta", "rigidity">>

\* Beam.momentum (getter)
get_momentum(b) == math_sqrt(fmul(b.energy, b.energy) - fmul(b.mass, b.mass))

\* Beam.gamma (getter)
get_gamma(b) == fdiv(b.energy, b.mass)

\* Beam.beta (getter)
get_beta(b) ==
  LET g == get_gamma(b)
  IN  IF g.exc # "none" THEN g
      ELSE LET q == fdiv(Scale, fmul(g.v, g.v))
           IN  IF q.exc # "none" THEN q ELSE math_sqrt(Scale - q.v)

\* Beam.rigidity (getter)
get_rigidity(b) ==
  LET p == get_momentum(b)
  IN  IF p.exc # "none" THEN p
      ELSE fdiv(p.v, abs(b.charge) * LightGeV)

\* getattr(beam, name)
Getattr(b, name) ==
  CASE name = "mass" -> Ok(b.mass)
    [] name = "charge" -> Ok(b.charge)
    [] name = "energy" -> Ok(b.energy)
    [] name = "momentum" -> get_momentum(b)
    [] name = "gamma" -> get_gamma(b)
    [] name = "beta" -> get_beta(b)
    [] name = "rigidity" -> get_rigidity(b)

\* A setter yields [exc, beam]: the exception raised ("none" when the write
\* went through) and the Beam afterwards.
Stored(b, e) == [exc |-> "none", beam |-> [b EXCEPT !.energy = e]]
Failed(b, e) == [exc |-> e, beam |-> b]

\* a setter that assigns the wrong attribute
set_momentum_assigns_mass(b, momentum) ==
  LET r == math_sqrt(fmul(momentum, momentum) + fmul(b.mass, b.mass))
  IN  IF r.exc # "none" THEN Failed(b, r.exc)
      ELSE [exc |-> "none", beam |-> [b EXCEPT !.mass = r.v]]

\* Beam.momentum (setter)
set_momentum(b, momentum) ==
  LET r == math_sqrt(fmul(momentum, momentum) + fmul(b.mass, b.mass))
  IN  IF r.exc # "none" THEN Failed(b, r.exc) ELSE Stored(b, r.v)

\* the setter without its domain check
set_gamma_unchecked(b, gamma) == Stored(b, fmul(gamma, b.mass))

\* Beam.gamma (setter)
set_gamma(b, gamma) ==
  IF gamma < Scale THEN Failed(b, "ValueError")
  ELSE Stored(b, fmul(gamma, b.mass))

\* Beam.beta (setter)
set_beta(b, beta) ==
  LET s == math_sqrt(Scale - fmul(beta, beta))
  IN  IF s.exc # "none" THEN Failed(b, s.exc)
      ELSE LET q == fdiv(b.mass, s.v)
           IN  IF q.exc # "none" THEN Failed(b, q.exc) ELSE Stored(b, q.v)

\* Beam.rigidity (setter): assigns self.momentum
set_rigidity(b, rigidity) ==
  set_momentum(b, fmul(rigidity * abs(b.charge), LightGeV))

\* energy is a plain attribute
set_energy(b, energy) == Stored(b, energy)

\* setattr(beam, name, value)
Setattr(b, name, value) ==
  CASE name = "energy" -> set_energy(b, value)
    [] name = "momentum" -> set_momentum(b, value)
    [] name = "gamma" -> set_gamma(b, value)
    [] name = "beta" -> set_beta(b, value)
    [] name = "rigidity" -> set_rigidity(b, value)

\* the scan taking the last supplied quantity instead of the first
LastSupplied(kw) ==
  LET idx == {i \in 1..Len(energy_definition_precedence) :
                energy_definition_precedence[i] \in DOMAIN kw}
  IN  IF idx = {} THEN ""
      ELSE energy_definition_precedence[CHOOSE i \in idx : \A j \in idx : i >= j]

\* next(x for x in energy_definition_precedence if args[x] is not None):
\* the supplied quantities are the domain of kw; "" stands for StopIteration
FirstSupplied(kw) ==
  LET idx == {i \in 1..Len(energy_definition_precedence) :
                energy_definition_precedence[i] \in DOMAIN kw}
  IN  IF idx = {} THEN ""
      ELSE energy_definition_precedence[CHOOSE i \in idx : \A j \in idx : i <= j]

\* Beam.__init__(mass, charge, **kw): [exc, beam]
Beam_init(mass, charge, kw) ==
  LET self == [mass |-> mass, charge |-> charge, energy |-> 0]
      x == FirstSupplied(kw)
  IN  IF x = "" THEN Failed(self, "ValueError") ELSE Setattr(self, x, kw[x])

RECURSIVE to_dict_from(_, _, _)
to_dict_from(b, i, acc) ==
  IF i > Len(Attributes) THEN [exc |-> "none", d |-> acc]
  ELSE LET r == Getattr(b, Attributes[i])
       IN  IF r.exc # "none" THEN [exc |-> r.exc, d |-> acc]
           ELSE to_dict_from(b, i + 1, [acc EXCEPT ![Attributes[i]] = r.v])

\* Beam.to_dict(): [exc, d]; the attributes are read in declaration order and
\* the first getter that raises ends the call
to_dict(b) == to_dict_from(b, 1, [a \in {Attributes[i] : i \in 1..Len(Attributes)} |-> 0])

(***************************************************************************)
(* A Beam under its programming interface: constructed from keyword        *)
(* arguments, then written and read through its attributes.                *)
(*   beam, constructed  the object; constructed is FALSE when __init__     *)
(*                      raised and there is no object                      *)
(*   args               the keyword arguments of the __init__ call that    *)
(*                      has just returned; its locals are gone afterwards  *)
(*   last               the operation that has just run, and its outcome   *)
(*   snapshot           the mapping the last to_dict() returned            *)
(*   fresh              the second Beam of the last round trip             *)
(***************************************************************************)
Masses == {Scale, 2 * Scale}
Charges == {1, -2}
Values == {-Scale, 0, Scale \div 2, Scale, 2 * Scale, 20 * Scale}

NoArgs == [x \in {} |-> 0]
NoDict == [a \in {Attributes[i] : i \in 1..Len(Attributes)} |-> 0]
NoBeam == [exc |-> "none", beam |-> [mass |-> 0, charge |-> 0, energy |-> 0]]

Keywords == UNION {[S -> Values] : S \in {T \in SUBSET Quantities : Cardinality(T) <= MaxSupplied}}

GuardIdle ==
  /\ blocks = [g \in Guards |-> FALSE]
  /\ stack = <<>>
  /\ pending = "none"
  /\ ret = "none"
  /\ runs = 0

AppIdle ==
  /\ number_of_nucleons = 1
  /\ inputs = <<>>
  /\ edit = [writes |-> 0, changes |-> 0, skips |-> 0, fills |-> 0]
  /\ events = 0

InitBeam ==
  /\ \E mass \in Masses, charge \in Charges, kw \in Keywords :
       LET r == Beam_init(mass, charge, kw)
       IN  /\ beam = r.beam
           /\ constructed = (r.exc = "none")
           /\ args = kw
           /\ last = [op |-> "init", q |-> FirstSupplied(kw), v |-> 0, exc |-> r.exc]
  /\ snapshot = NoDict
  /\ fresh = NoBeam
  /\ GuardIdle
  /\ AppIdle

\* beam.<q> = v
Write(q, v) ==
  /\ constructed
  /\ LET r == Setattr(beam, q, v)
     IN  /\ beam' = r.beam
         /\ last' = [op |-> "set", q |-> q, v |-> v, exc |-> r.exc]
  /\ args' = NoArgs
  /\ snapshot' = NoDict
  /\ fresh' = NoBeam
  /\ UNCHANGED <<constructed, blocks, stack, pending, ret, runs,
                 number_of_nucleons, inputs, edit, events>>

\* beam.<q>
Read(q) ==
  /\ constructed
  /\ LET r == Getattr(beam, q)
     IN  last' = [op |-> "get", q |-> q, v |-> r.v, exc |-> r.exc]
  /\ args' = NoArgs
  /\ snapshot' = NoDict
  /\ fresh' = NoBeam
  /\ UNCHANGED <<beam, constructed, blocks, stack, pending, ret, runs,
                 number_of_nucleons, inputs, edit, events>>

\* beam.to_dict()
ToDict ==
  /\ constructed
  /\ LET r == to_dict(beam)
     IN  /\ last' = [op |-> "to_dict", q |-> "", v |-> 0, exc |-> r.exc]
         /\ snapshot' = IF r.exc = "none" THEN r.d ELSE NoDict
  /\ args' = NoArgs
  /\ fresh' = NoBeam
  /\ UNCHANGED <<beam, constructed, blocks, stack, pending, ret, runs,
                 number_of_nucleons, inputs, edit, events>>

\* Beam(mass=beam.mass, charge=beam.charge, <q>=beam.<q>): the value read
\* from the Beam seeds a second Beam of the same mass and charge
RoundTripOf(b, q) ==
  LET r == Getattr(b, q)
  IN  IF r.exc # "none" THEN [exc |-> r.exc, beam |-> NoBeam.beam]
      ELSE Beam_init(b.mass, b.charge, [x \in {q} |-> r.v])

RoundTrip(q) ==
  /\ constructed
  /\ LET r == RoundTripOf(beam, q)
     IN  /\ fresh' = r
         /\ last' = [op |-> "roundtrip", q |-> q, v |-> 0, exc |-> r.exc]
  /\ args' = NoArgs
  /\ snapshot' = NoDict
  /\ UNCHANGED <<beam, constructed, blocks, stack, pending, ret, runs,
                 number_of_nucleons, inputs, edit, events>>

NextBeam ==
  \/ \E q \in Quantities, v \in Values : Write(q, v)
  \/ \E q \in Quantities \ {"energy"} : Read(q)
  \/ ToDict
  \/ \E q \in Quantities \ {"energy"} : RoundTrip(q)

BeamSpec == InitBeam /\ [][NextBeam]_vars

(***************************************************************************)
(* Properties of the Beam.                                                 *)
(***************************************************************************)
Derived == {"momentum", "gamma", "beta", "rigidity"}

\* C5: a write of gamma with a value below 1 raises ValueError and leaves
\* mass, charge and energy of the Beam as they were before the write.
C5_GammaBelowOneRejected ==
  [][(last'.op = "set" /\ last'.q = "gamma" /\ last'.v < Scale)
       => (last'.exc = "ValueError" /\ beam' = beam)]_vars

C5_Witness ==
  /\ constructed
  /\ last.op = "set" /\ last.q = "gamma" /\ last.v = Scale \div 2
  /\ last.exc = "ValueError"
  /\ beam.energy = 2 * Scale

OutOfDomain(q, v) ==
  \/ q = "momentum" /\ v < 0
  \/ q = "beta" /\ (v < 0 \/ v >= Scale)
  \/ q = "rigidity" /\ v < 0

\* C6: a write of momentum, beta or rigidity with a value outside its
\* domain (momentum < 0, beta < 0 or beta >= 1, rigidity < 0) signals failure
\* and leaves the energy untouched.
C6_OutOfDomainWriteRejected ==
  [][(last'.op = "set" /\ OutOfDomain(last'.q, last'.v))
       => (last'.exc # "none" /\ beam'.energy = beam.energy)]_vars

\* The first supplied quantity, spelled out in the documented order.
Winner(kw) ==
  IF "energy" \in DOMAIN kw THEN "energy"
  ELSE IF "momentum" \in DOMAIN kw THEN "momentum"
  ELSE IF "gamma" \in DOMAIN kw THEN "gamma"
  ELSE IF "beta" \in DOMAIN kw THEN "beta"
  ELSE "rigidity"

\* C7: construction with several quantities supplied has the outcome of
\* construction with only the first supplied one, in the order energy,
\* momentum, gamma, beta, rigidity (for energy that is the value itself);
\* construction with none supplied fails with ValueError.
C7_PrecedenceOnConstruction ==
  last.op = "init" =>
    IF DOMAIN args = {} THEN ~constructed /\ last.exc = "ValueError"
    ELSE LET x == Winner(args)
             r == Beam_init(beam.mass, beam.charge, [q \in {x} |-> args[x]])
         IN  /\ beam = r.beam
             /\ last.exc = r.exc
             /\ constructed = (r.exc = "none")
             /\ x = "energy" => (constructed /\ beam.energy = args[x])

C7_Witness ==
  /\ last.op = "init" /\ constructed
  /\ DOMAIN args = {"energy", "momentum"}
  /\ args["energy"] = 2 * Scale /\ args["momentum"] = 20 * Scale
  /\ beam.mass = Scale /\ beam.energy = 2 * Scale

\* C8: reading momentum, gamma, beta or rigidity and taking the snapshot
\* leave mass, charge and energy unchanged; writing momentum, gamma, beta or
\* rigidity leaves mass and charge unchanged.
C8_FrameOfReadsAndWrites ==
  [][/\ (last'.op \in {"get", "to_dict"}) => beam' = beam
     /\ (last'.op = "set" /\ last'.q \in Derived)
          => (beam'.mass = beam.mass /\ beam'.charge = beam.charge)]_vars

C8_Witness ==
  /\ last.op = "set" /\ last.q = "momentum" /\ last.v = 2 * Scale
  /\ last.exc = "none"
  /\ beam.mass = Scale /\ beam.charge = -2 /\ beam.energy = 224

\* C9: for a Beam with energy >= mass, reading a quantity and constructing a
\* second Beam of the same mass and charge from it reproduces the energy,
\* here to within two grid steps per unit of energy.
C9_RoundTripReproducesEnergy ==
  (constructed /\ last.op = "roundtrip" /\ beam.energy >= beam.mass)
    => /\ fresh.exc = "none"
       /\ abs(fresh.beam.energy - beam.energy) * Scale <= 2 * beam.energy

(***************************************************************************)
(* A guarded handler and a Guard used directly, in one thread of control.  *)
(*   stack    the active blocks, innermost last: "body" is an execution of *)
(*            the wrapped handler inside the wrapper's `with guard:`,      *)
(*            "with" is the body of a direct `with scoped:`                *)
(*   pending  the exception in flight in the innermost block               *)
(*   ret      the outcome of the last wrapper call that came back: the     *)
(*            handler's "result", "None", or the exception it let out      *)
(*   runs     executions of the handler body begun since the last call     *)
(*            made while no execution of the body was active               *)
(*   last     the step that has just run                                   *)
(***************************************************************************)
Step(op, exc) == [op |-> op, q |-> "", v |-> 0, exc |-> exc]

BeamIdle ==
  /\ beam = NoBeam.beam
  /\ constructed = FALSE
  /\ args = NoArgs
  /\ snapshot = NoDict
  /\ fresh = NoBeam

InitGuard ==
  /\ GuardIdle
  /\ last = Step("init", "none")
  /\ BeamIdle
  /\ AppIdle

Top == stack[Len(stack)]
Pop == SubSeq(stack, 1, Len(stack) - 1)

ActiveBodies == Cardinality({i \in DOMAIN stack : stack[i].kind = "body"})
Outermost == ActiveBodies = 0

\* wrapper(*args): from outside any block or from inside the innermost one
Call ==
  /\ pending = "none"
  /\ LET r == wrapper_enter(blocks)
     IN  /\ blocks' = r.blocks
         /\ last' = Step("call", r.exc)
         /\ IF r.entered
            THEN /\ Len(stack) < MaxDepth + 1
                 /\ stack' = Append(stack, [kind |-> "body"])
                 /\ runs' = IF Outermost THEN 1 ELSE runs + 1
                 /\ UNCHANGED <<ret, pending>>
            ELSE IF r.exc # "none"
            THEN /\ UNCHANGED <<stack, runs>>
                 /\ IF stack = <<>>
                    THEN ret' = r.exc /\ UNCHANGED pending
                    ELSE pending' = r.exc /\ UNCHANGED ret
            ELSE /\ ret' = "None"
                 /\ runs' = IF Outermost THEN 0 ELSE runs
                 /\ UNCHANGED <<stack, pending>>
  /\ UNCHANGED <<beam, constructed, args, snapshot, fresh,
                 number_of_nucleons, inputs, edit, events>>

\* func returns: the `with` block is left, the wrapper returns func's result
Return ==
  /\ stack # <<>> /\ Top.kind = "body" /\ pending = "none"
  /\ blocks' = Guard_exit(blocks, "handler", "none")
  /\ stack' = Pop
  /\ ret' = "result"
  /\ last' = Step("return", "none")
  /\ UNCHANGED <<pending, runs, beam, constructed, args, snapshot, fresh,
                 number_of_nucleons, inputs, edit, events>>

\* an exception leaves the innermost block: its __exit__ runs, and the
\* exception goes on to the enclosing block or to the outside caller
Unwind(e) ==
  /\ blocks' = Guard_exit(blocks, GuardOf(Top), e)
  /\ stack' = Pop
  /\ IF Len(stack) = 1
     THEN /\ pending' = "none"
          /\ ret' = IF Top.kind = "body" THEN e ELSE ret
     ELSE /\ pending' = e
          /\ ret' = IF Top.kind = "body" THEN e ELSE ret
  /\ UNCHANGED <<runs, beam, constructed, args, snapshot, fresh,
                 number_of_nucleons, inputs, edit, events>>

\* func raises
RaiseInBody ==
  /\ stack # <<>> /\ Top.kind = "body" /\ pending = "none"
  /\ last' = Step("raise", "HandlerError")
  /\ Unwind("HandlerError")

\* an exception in flight is not handled in the innermost block
Propagate ==
  /\ stack # <<>> /\ pending # "none"
  /\ last' = Step("propagate", pending)
  /\ Unwind(pending)

\* an exception in flight is handled (try/except) in the innermost block
Catch ==
  /\ stack # <<>> /\ pending # "none"
  /\ pending' = "none"
  /\ last' = Step("catch", pending)
  /\ UNCHANGED <<blocks, stack, ret, runs, beam, constructed, args, snapshot,
                 fresh, number_of_nucleons, inputs, edit, events>>

\* an exception raised by a direct Guard call reaches the code that made it
Raised(e) ==
  IF stack = <<>> THEN pending' = "none" ELSE pending' = e

\* `with scoped:`
WithEnter ==
  /\ pending = "none"
  /\ LET r == Guard_enter(blocks, "scoped")
     IN  /\ blocks' = r.blocks
         /\ last' = Step("with", r.exc)
         /\ IF r.exc = "none"
            THEN /\ Len(stack) < MaxDepth + 1
                 /\ stack' = Append(stack, [kind |-> "with"])
                 /\ UNCHANGED pending
            ELSE /\ Raised(r.exc)
                 /\ UNCHANGED stack
  /\ UNCHANGED <<ret, runs, beam, constructed, args, snapshot, fresh,
                 number_of_nucleons, inputs, edit, events>>

\* the body of a `with scoped:` ends
WithExit ==
  /\ stack # <<>> /\ Top.kind = "with" /\ pending = "none"
  /\ blocks' = Guard_exit(blocks, "scoped", "none")
  /\ stack' = Pop
  /\ last' = Step("with_exit", "none")
  /\ UNCHANGED <<pending, ret, runs, beam, constructed, args, snapshot, fresh,
                 number_of_nucleons, inputs, edit, events>>

\* scoped.block()
Block ==
  /\ pending = "none"
  /\ LET r == block(blocks, "scoped")
     IN  /\ blocks' = r.blocks
         /\ last' = Step("block", r.exc)
         /\ IF r.exc = "none" THEN UNCHANGED pending ELSE Raised(r.exc)
  /\ UNCHANGED <<stack, ret, runs, beam, constructed, args, snapshot, fresh,
                 number_of_nucleons, inputs, edit, events>>

\* scoped.unblock()
Unblock ==
  /\ pending = "none"
  /\ blocks' = unblock(blocks, "scoped")
  /\ last' = Step("unblock", "none")
  /\ UNCHANGED <<stack, pending, ret, runs, beam, constructed, args, snapshot,
                 fresh, number_of_nucleons, inputs, edit, events>>

NextGuard ==
  \/ Call
  \/ Return
  \/ RaiseInBody
  \/ Propagate
  \/ Catch
  \/ WithEnter
  \/ WithExit
  \/ Block
  \/ Unblock

GuardSpec == InitGuard /\ [][NextGuard]_vars

(***************************************************************************)
(* Properties of the Guard.                                                *)
(***************************************************************************)
\* C1: a wrapper call made while the handler's guard is free engages the
\* guard and runs the body; leaving the body, by return or by an exception,
\* releases the guard and hands the result or the exception to the caller;
\* so the guard is engaged exactly while an execution of the body is active.
C1_GuardReleasedOnEveryExit ==
  /\ [](blocks["handler"] <=> ActiveBodies > 0)
  /\ [][/\ (last'.op = "call" /\ ~blocks["handler"])
            => (blocks'["handler"] /\ stack' = Append(stack, [kind |-> "body"]))
        /\ (Len(stack') < Len(stack) /\ Top.kind = "body")
            => /\ ~blocks'["handler"]
               /\ ret' = IF last'.op = "return" THEN "result" ELSE last'.exc]_vars

C1_Witness ==
  /\ ret = "HandlerError"
  /\ last = Step("call", "none")
  /\ stack = <<[kind |-> "body"]>>
  /\ blocks["handler"]

\* C2: at most one execution of the handler body is active for the guard,
\* and the body runs once per outermost call; a wrapper call made while the
\* guard is engaged runs nothing, raises nothing, returns None and leaves the
\* guard engaged.
C2_NestedCallSkipped ==
  /\ [](ActiveBodies <= 1 /\ runs <= 1)
  /\ [][(last'.op = "call" /\ blocks["handler"])
          => /\ last'.exc = "none"
             /\ ret' = "None"
             /\ blocks' = blocks /\ stack' = stack /\ pending' = pending
             /\ runs' = runs]_vars

C2_Witness ==
  /\ stack = <<[kind |-> "body"]>>
  /\ last = Step("call", "none")
  /\ ret = "None"
  /\ runs = 1
  /\ blocks["handler"]

\* C3: `with scoped:` and scoped.block() on an engaged guard raise
\* AlreadyBlocksError and leave the guard engaged and the active blocks as
\* they are.
C3_ScopedEntryOnEngagedGuardFails ==
  [][(last'.op \in {"with", "block"} /\ blocks["scoped"])
       => /\ last'.exc = "AlreadyBlocksError"
          /\ blocks' = blocks
          /\ stack' = stack]_vars

C3_Witness ==
  /\ last = Step("with", "AlreadyBlocksError")
  /\ pending = "AlreadyBlocksError"
  /\ stack = <<[kind |-> "with"]>>
  /\ blocks["scoped"]

(***************************************************************************)
(* ACCCompanion (app.py).                                                  *)
(*                                                                         *)
(* The text of an input field is a record: kind "empty" is the empty       *)
(* string, "junk" a text FLOAT_PATTERN does not match (and does not match  *)
(* with a "0" appended), "num" a decimal number v, written with a decimal  *)
(* point or without, followed by pad further zeros.  A negative number is  *)
(* written with a leading "-".                                             *)
(***************************************************************************)
Empty == [kind |-> "empty", v |-> 0, point |-> FALSE, pad |-> 0]
Junk == [kind |-> "junk", v |-> 0, point |-> FALSE, pad |-> 0]
Num(v, point) == [kind |-> "num", v |-> v, point |-> point, pad |-> 0]

\* FLOAT_FORMAT = '{:.6f}'.format: six decimals are finer than the grid, so
\* the digits written are those of the grid point
FLOAT_FORMAT(x) == Num(x, TRUE)

\* float_validator: FLOAT_PATTERN = \d+(\.\d+)? matches the whole text
float_validator(text) == text.kind = "num" /\ text.v >= 0

\* float(field.value)
float(text) == text.v

\* f'{current_value}0'
Append0(text) ==
  IF text.kind # "num" THEN text
  ELSE [text EXCEPT !.v = IF text.point THEN @ ELSE 10 * @, !.pad = @ + 1]

PER_NUCLEON == {"energy", "momentum"}

\* the outcome of energy_changed before its loop over the input fields: how
\* the body goes on ("return", "raise" or "fill"), the Beam afterwards,
\* whether the Beam was assigned, and the local `properties`
Outcome(how, exc, b, wrote, properties) ==
  [how |-> how, exc |-> exc, beam |-> b, wrote |-> wrote, properties |-> properties]

\* properties = self.beam.to_dict(); properties['energy'] -= self.beam.mass;
\* properties[label] /= self.number_of_nucleons for the PER_NUCLEON labels
energy_changed_properties(b, n, d) ==
  IF d.exc # "none" THEN Outcome("raise", d.exc, b, TRUE, NoDict)
  ELSE Outcome("fill", "none", b, TRUE,
               [d.d EXCEPT !["energy"] = RDiv(@ - b.mass, n),
                           !["momentum"] = RDiv(@, n)])

\* try: setattr(...) / except ValueError: pass / else: ...
energy_changed_try(b, n, r) ==
  IF r.exc = "ValueError" THEN Outcome("return", "none", b, FALSE, NoDict)
  ELSE IF r.exc # "none" THEN Outcome("raise", r.exc, b, FALSE, NoDict)
  ELSE energy_changed_properties(r.beam, n, to_dict(r.beam))

\* value = float(field.value)*factor, plus the mass for the energy field
energy_changed_value(b, n, field, text) ==
  float(text) * (IF field \in PER_NUCLEON THEN n ELSE 1)
    + (IF field = "energy" THEN b.mass ELSE 0)

\* energy_changed from its first line to the loop over the input fields
energy_changed_start(b, n, field, text) ==
  IF ~float_validator(text) THEN Outcome("return", "none", b, FALSE, NoDict)
  ELSE energy_changed_try(b, n, Setattr(b, field, energy_changed_value(b, n, field, text)))

\* The state a handler works on: the fields of the application, the guard
\* of energy_changed, the exception in flight (exc) and the bookkeeping of
\* the current user event: executions of the body of energy_changed (runs),
\* assignments to the Beam's energy (writes), assignments that changed the
\* text of a field (changes), wrapper calls that were skipped (skips) and
\* values assigned to sibling fields (fills).
RECURSIVE Invoke(_, _)

\* input_field.value = text: the field takes the text and, when that changes
\* it, its on_change handler runs
SetValue(st, field, text) ==
  IF st.inputs[field] = text THEN st
  ELSE Invoke([st EXCEPT !.inputs[field] = text, !.changes = @ + 1], field)

\* for input_field in self.energy_inputs.values(): from the i-th field on;
\* an exception raised by an assignment ends the loop
RECURSIVE FillSiblings(_, _, _, _)
FillSiblings(st, field, properties, i) ==
  IF i > Len(energy_definition_precedence) \/ st.exc # "none" THEN st
  ELSE LET label == energy_definition_precedence[i]
       IN  IF label = field THEN FillSiblings(st, field, properties, i + 1)
           ELSE FillSiblings(
                  SetValue([st EXCEPT !.fills = @ + 1], label,
                           FLOAT_FORMAT(properties[label])),
                  field, properties, i + 1)

\* the wrapper's `with guard:` is left, by return or by an exception
wrapper_leave(st) ==
  [st EXCEPT !.blocks = Guard_exit(@, "handler", st.exc),
             !.ret = IF st.exc = "none" THEN "None" ELSE st.exc]

\* the body of energy_changed, entered with the outcome o of its start
energy_changed(st, field, o) ==
  CASE o.how = "return" -> st
    [] o.how = "raise" -> [st EXCEPT !.exc = o.exc]
    [] o.how = "fill" -> FillSiblings(st, field, o.properties, 1)

\* the wrapper once `if not guard.blocks: with guard:` has gone as w says
wrapper(st, field, w, o) ==
  IF ~w.entered
  THEN IF w.exc = "none"
       THEN [st EXCEPT !.ret = "None", !.skips = @ + 1]
       ELSE [st EXCEPT !.exc = w.exc]
  ELSE wrapper_leave(
         energy_changed([st EXCEPT !.blocks = w.blocks,
                                   !.beam = o.beam,
                                   !.runs = @ + 1,
                                   !.writes = IF o.wrote THEN @ + 1 ELSE @],
                        field, o))

\* on_change of an energy input: energy_changed(self, field) through the
\* wrapper of Guard.block_recursion
Invoke(st, field) ==
  wrapper(st, field, wrapper_enter(st.blocks),
          energy_changed_start(st.beam, st.n, field, st.inputs[field]))

\* the application as a user event finds it
Now == [beam |-> beam, n |-> number_of_nucleons, blocks |-> blocks, inputs |-> inputs,
        ret |-> ret, exc |-> "none", runs |-> 0, writes |-> 0, changes |-> 0,
        skips |-> 0, fills |-> 0]

\* the application as the event leaves it; an exception that reaches the
\* event loop ends the handler and the application goes on
Becomes(st, kind, field) ==
  /\ beam' = st.beam
  /\ number_of_nucleons' = st.n
  /\ blocks' = st.blocks
  /\ inputs' = st.inputs
  /\ ret' = st.ret
  /\ runs' = st.runs
  /\ edit' = [writes |-> st.writes, changes |-> st.changes, skips |-> st.skips,
              fills |-> st.fills]
  /\ last' = [op |-> kind, q |-> field, v |-> 0, exc |-> st.exc]
  /\ events' = events + 1
  /\ UNCHANGED <<constructed, args, snapshot, fresh, stack, pending>>

\* startup()
Init ==
  /\ number_of_nucleons = 1
  /\ beam = Beam_init(Scale, 1, [x \in {"energy"} |-> Scale]).beam
  /\ constructed = TRUE
  /\ inputs = [label \in Quantities |-> Empty]
  /\ blocks = [g \in Guards |-> FALSE]
  /\ stack = <<>>
  /\ pending = "none"
  /\ ret = "none"
  /\ runs = 0
  /\ edit = [writes |-> 0, changes |-> 0, skips |-> 0, fills |-> 0]
  /\ events = 0
  /\ last = Step("startup", "none")
  /\ args = NoArgs
  /\ snapshot = NoDict
  /\ fresh = NoBeam

\* the largest number a field is given (the integers of the model are 32 bits
\* wide)
MaxNumber == 100 * Scale

UserTexts == {Junk, Num(Scale \div 2, TRUE), Num(Scale, FALSE), Num(2 * Scale, TRUE)}

\* the user changes the text of the energy input `field`
UserEdit(field, text) ==
  /\ events < MaxEvents
  /\ text # inputs[field]
  /\ \E st \in {SetValue(Now, field, text)} : Becomes(st, "edit", field)

\* ATOMIC_WEIGHTS_IN_GEV: symbol -> nucleon number -> weight per nucleon in
\* GeV; sample entries of the resource file
ATOMIC_WEIGHTS_IN_GEV ==
  [H |-> [n \in {1, 2} |-> RDiv(939 * Scale, 1000)],
   He |-> [n \in {4} |-> RDiv(932 * Scale, 1000)]]

\* a species text: what PARTICLE_SPECIES_PATTERN finds in it
Species(n, symbol, z) == [match |-> TRUE, n |-> n, symbol |-> symbol, z |-> z]
NoMatch == [match |-> FALSE, n |-> 0, symbol |-> "", z |-> 0]

\* particle_species_validator: TRUE when it returns None
particle_species_validator(value) ==
  /\ value.match
  /\ value.symbol \in DOMAIN ATOMIC_WEIGHTS_IN_GEV
  /\ value.n \in DOMAIN ATOMIC_WEIGHTS_IN_GEV[value.symbol]

\* self.energy_inputs['energy'].value = current_value: not reached when the
\* assignment before it let an exception out
RestoreEnergy(st, current_value) ==
  IF st.exc # "none" THEN st ELSE SetValue(st, "energy", current_value)

\* the two assignments that make the energy input's handler run
TouchEnergy(st, current_value) ==
  IF current_value.kind = "empty" THEN st
  ELSE RestoreEnergy(SetValue(st, "energy", Append0(current_value)), current_value)

\* particle_species_changed(field)
particle_species_changed(st, value) ==
  IF ~particle_species_validator(value) THEN st
  ELSE TouchEnergy(
         [st EXCEPT !.beam.mass = value.n * ATOMIC_WEIGHTS_IN_GEV[value.symbol][value.n],
                    !.beam.charge = value.z,
                    !.n = value.n],
         st.inputs["energy"])

SpeciesTexts ==
  {Species(2, "H", 1), Species(4, "He", 2), Species(2, "H", 0), Species(3, "H", 1),
   NoMatch}

\* the user changes the species text.  The text itself is not kept: any
\* text can follow any other, at most by way of one that does not match.
SpeciesEdit(value) ==
  /\ events < MaxEvents
  /\ Append0(inputs["energy"]).v <= MaxNumber
  /\ \E st \in {particle_species_changed(Now, value)} : Becomes(st, "species", value.symbol)

Next ==
  \/ \E field \in Quantities, text \in UserTexts : UserEdit(field, text)
  \/ \E value \in SpeciesTexts : SpeciesEdit(value)

Spec == Init /\ [][Next]_vars

(***************************************************************************)
(* Properties of the application.                                          *)
(***************************************************************************)
\* C4: the Beam of the application has energy >= mass after every user
\* event (every quantity edit and every species change).
C4_EnergyAtLeastMass == beam.energy >= beam.mass

\* what the input fields show for a Beam
Shown(b, n) == energy_changed_properties(b, n, to_dict(b)).properties

\* C10: one user edit of a quantity field runs the body of energy_changed
\* once; every further on_change of the edit is skipped by the wrapper; the
\* Beam is assigned at most once; the guard is free afterwards; and when the
\* body reaches its loop, all four sibling fields are assigned, from the Beam
\* as that one assignment left it.
C10_OneBodyRunPerEdit ==
  last.op = "edit" =>
    /\ runs = 1
    /\ edit.writes <= 1
    /\ edit.skips = edit.changes - 1
    /\ ~blocks["handler"]
    /\ edit.fills > 0 =>
         /\ edit.fills = 4
         /\ edit.writes = 1
         /\ last.exc = "none" /\ ret = "None"
         /\ \A label \in Quantities \ {last.q} :
              inputs[label] = FLOAT_FORMAT(Shown(beam, number_of_nucleons)[label])

C10_Witness ==
  /\ last.op = "edit" /\ last.q = "gamma" /\ last.exc = "none"
  /\ number_of_nucleons = 4
  /\ runs = 1 /\ edit.writes = 1 /\ edit.fills = 4 /\ edit.skips = 4
  /\ inputs["gamma"] = Num(2 * Scale, TRUE)
  /\ inputs["energy"] = FLOAT_FORMAT(RDiv(beam.energy - beam.mass, 4))

====
